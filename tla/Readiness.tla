------------------------------ MODULE Readiness ------------------------------
(***************************************************************************)
(* The readiness gate (tools/mission-control/readiness.js), asked by the    *)
(* page through GET /api/readiness or from the command line: a sequence of  *)
(* reads of Azure and the cluster, one after the other, which are judged    *)
(* when the last has answered.  What they are about changes meanwhile, and  *)
(* each of them may fail.                                                   *)
(***************************************************************************)
EXTENDS Integers, Sequences, FiniteSets

CONSTANTS
    MaxFlips,       \* how often what the checks read changes during one evaluation
    MaxUnread       \* and how many reads fail

ASSUME ReadinessAssumption == MaxFlips \in Nat /\ MaxUnread \in Nat

\* What there is to read: the account is the configured one, the resource
\* group exists, a cluster runs, every pod runs, both services exist, a
\* collector runs, and the native SRE Agent is provisioned.
Facts == {"account", "group", "cluster", "baseline", "services", "collector", "agent"}

\* The checks of evaluateReadiness that every profile has, in their order.
Base == <<"account", "group", "cluster", "baseline", "services", "collector">>

VARIABLES
    world,          \* the facts that hold
    query,          \* who asks, and for what
    reading,        \* what the evaluation reads next, or where it ended
    native,         \* runtime.nativeSreAgent: what was read of the agent
    checks,         \* the checks so far
    verdict,        \* the status that was answered
    held, lacked,   \* history: what held, and what did not, at some time since
                    \* the evaluation began
    unreadable,         \* history: the reads that failed
    flips

readinessVars == <<world, query, reading, native, checks, verdict, held, lacked, unreadable, flips>>

\* An explicit requireNativeSreAgent, as toBoolean reads it.
Flags == {"unset", "true", "false"}

Queries ==
    [via : {"page", "cli"},
     profile : BOOLEAN,     \* the profile requires the native SRE Agent
     flag : Flags,
     wellFormed : BOOLEAN,  \* scope and timeout pass their validation
     mock : {"none", "healthy", "blocked"}]

Check == [of : Facts \cup {"request"}, status : {"pass", "warn", "fail"}, blocking : BOOLEAN]

ReadinessInit ==
    /\ \E missing \in SUBSET Facts : Cardinality(missing) <= 1 /\ world = Facts \ missing
    /\ query \in {q \in Queries : q.via = "cli" => q.flag # "unset"}  \* parseCliArgs sets it
    /\ reading = IF query.via = "page" THEN "scope" ELSE "validate"
    /\ native = "unknown"
    /\ checks = {}
    /\ verdict = "none"
    /\ held = world
    /\ lacked = Facts \ world
    /\ unreadable = {}
    /\ flips = 0

-----------------------------------------------------------------------------
\* Mutant of resolveRequirementFlag: the caller decides.
resolveRequirementFlagExplicit(profileRequirement, explicit) ==
    IF explicit = "unset" THEN profileRequirement ELSE explicit = "true"

\* A flag adds a requirement to a profile and takes none away.
resolveRequirementFlag(profileRequirement, explicit) ==
    profileRequirement \/ explicit = "true"

requireNativeSreAgent == resolveRequirementFlag(query.profile, query.flag)

\* A read of a fact: what it is now, or nothing, which is no better than absent.
ReadsAs(fact, holds) ==
    \/ holds = (fact \in world) /\ UNCHANGED unreadable
    \/ /\ Cardinality(unreadable) < MaxUnread
       /\ holds = FALSE /\ unreadable' = unreadable \cup {fact}

Passed(fact) == [of |-> fact, status |-> "pass", blocking |-> fact # "services"]
Failed(fact) == [of |-> fact, status |-> "fail", blocking |-> TRUE]

Answers(status) ==
    /\ verdict' = status
    /\ reading' = "answered"

\* resolveDeployedScope, which the server does first: a scope that the caller
\* must match (a wrong timeout is noticed only later), an account and a group
\* that must be the configured ones.
ResolveScope ==
    /\ reading = "scope"
    /\ \/ ~query.wellFormed /\ Answers("blocked") /\ UNCHANGED unreadable
       \/ \E holds \in BOOLEAN :
             /\ ReadsAs("account", holds)
             /\ IF holds THEN reading' = "scopeGroup" /\ UNCHANGED verdict
                         ELSE Answers("blocked")
    /\ UNCHANGED <<world, query, native, checks, held, lacked, flips>>

ResolveScopeGroup ==
    /\ reading = "scopeGroup"
    /\ \E holds \in BOOLEAN :
          /\ ReadsAs("group", holds)
          /\ IF holds THEN reading' = "evidence" /\ UNCHANGED verdict
                      ELSE Answers("blocked")
    /\ UNCHANGED <<world, query, native, checks, held, lacked, flips>>

\* resolveNativeSreAgentEvidence: the server looks whether it is required or not.
ResolveNativeSreAgentEvidence ==
    /\ reading = "evidence"
    /\ \E holds \in BOOLEAN :
          /\ ReadsAs("agent", holds)
          /\ native' = IF holds THEN "ready" ELSE "missing"
    /\ reading' = "validate"
    /\ UNCHANGED <<world, query, checks, verdict, held, lacked, flips>>

\* normalizeRequest, and the canned result of a mock.
Validate ==
    /\ reading = "validate"
    /\ CASE ~query.wellFormed ->
                /\ checks' = {Failed("request")}
                /\ Answers("blocked")
         [] query.wellFormed /\ query.mock # "none" ->
                /\ UNCHANGED checks
                /\ Answers(IF query.mock = "healthy" THEN "ready" ELSE "blocked")
         [] OTHER ->
                /\ reading' = Base[1]
                /\ UNCHANGED <<checks, verdict>>
    /\ UNCHANGED <<world, query, native, held, lacked, unreadable, flips>>

\* One of the checks every profile has.
CheckBase(i) ==
    /\ reading = Base[i]
    /\ \E holds \in BOOLEAN :
          /\ ReadsAs(Base[i], holds)
          /\ checks' = checks \cup {IF holds THEN Passed(Base[i]) ELSE Failed(Base[i])}
    /\ reading' = IF i = Len(Base) THEN "agent" ELSE Base[i + 1]
    /\ UNCHANGED <<world, query, native, verdict, held, lacked, flips>>

\* From the command line the agent is read only when it is required.
ReadAgent ==
    /\ reading = "agent"
    /\ IF native = "unknown" /\ requireNativeSreAgent
       THEN \E holds \in BOOLEAN :
                ReadsAs("agent", holds) /\ native' = IF holds THEN "ready" ELSE "missing"
       ELSE UNCHANGED <<native, unreadable>>
    /\ reading' = "judge"
    /\ UNCHANGED <<world, query, checks, verdict, held, lacked, flips>>

\* Mutant of AgentCheck: an optional component warns as loudly as a required one.
AgentCheckBlocking ==
    [of |-> "agent",
     status |-> IF native = "ready" THEN "pass" ELSE IF requireNativeSreAgent THEN "fail" ELSE "warn",
     blocking |-> TRUE]

\* The agent as a component that a profile may require.  The other one, Mission
\* Control itself, is given as ready by whoever asks: its check never fails.
AgentCheck ==
    [of |-> "agent",
     status |-> IF native = "ready" THEN "pass" ELSE IF requireNativeSreAgent THEN "fail" ELSE "warn",
     blocking |-> requireNativeSreAgent]

\* The verdict: no blocking check failed or warned.
Judge ==
    /\ reading = "judge"
    /\ checks' = checks \cup {AgentCheck}
    /\ Answers(IF \E c \in checks' : c.blocking /\ c.status # "pass" THEN "blocked" ELSE "ready")
    /\ UNCHANGED <<world, query, native, held, lacked, unreadable, flips>>

\* Something is deployed, broken, repaired or logged out of during the evaluation.
Flip(fact) ==
    /\ reading # "answered"
    /\ flips < MaxFlips
    /\ flips' = flips + 1
    /\ world' = IF fact \in world THEN world \ {fact} ELSE world \cup {fact}
    /\ held' = held \cup world'
    /\ lacked' = lacked \cup (Facts \ world')
    /\ UNCHANGED <<query, reading, native, checks, verdict, unreadable>>

ReadinessNext ==
    \/ ResolveScope \/ ResolveScopeGroup \/ ResolveNativeSreAgentEvidence
    \/ Validate
    \/ \E i \in 1..Len(Base) : CheckBase(i)
    \/ ReadAgent \/ Judge
    \/ \E fact \in Facts : Flip(fact)

ReadinessSpec == ReadinessInit /\ [][ReadinessNext]_readinessVars

-----------------------------------------------------------------------------
ReadinessTypeOK ==
    /\ world \subseteq Facts
    /\ query \in Queries
    /\ reading \in Facts \cup {"scope", "scopeGroup", "evidence", "validate", "judge", "answered"}
    /\ native \in {"unknown", "ready", "missing"}
    /\ checks \subseteq Check
    /\ verdict \in {"none", "ready", "blocked"}
    /\ held \subseteq Facts /\ lacked \subseteq Facts /\ unreadable \subseteq Facts
    /\ flips \in 0..MaxFlips

\* What the profile and the flag ask for, said without the code that works it out.
Required ==
    Facts \ (IF query.profile \/ query.flag = "true" THEN {} ELSE {"agent"})

\* A gate that is ready was not invented: unless a mock was asked for, each fact
\* the gate requires held at some time since the evaluation began, none was
\* taken for granted because it could not be read, and no flag took one off the
\* list.  The facts are read one after the other and need never have held at
\* once; and docs/DEMO-SCRIPT.md:24-29 lists proof the gate does not ask for.
ReadyIsObserved ==
    verdict = "ready" /\ query.mock = "none" =>
        Required \subseteq held /\ Required \cap unreadable = {}

\* A gate that is blocked has its reason in something required: a component that
\* is optional for the profile, absent or unreadable, never blocks the demo.
BlockedIsExplained ==
    verdict = "blocked" /\ query.wellFormed /\ query.mock = "none" =>
        Required \cap (lacked \cup unreadable) # {}
=============================================================================
