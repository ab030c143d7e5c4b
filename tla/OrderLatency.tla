---------------------------- MODULE OrderLatency ----------------------------
(***************************************************************************)
(* tools/mission-control/order-dependency-latency.js: the synthetic traffic *)
(* of the dependency-latency scenario, a request a second through a         *)
(* baseline, a failure and a recovery phase, and the judgement of each      *)
(* phase.  The delays are exact; the jitter, a hash of the sequence number, *)
(* is any value of its range, of which the extremes are enough: a sample is  *)
(* either above the threshold or not.                                       *)
(*                                                                         *)
(* Of the samples of a phase the judgement needs only how many are above    *)
(* the threshold: a quantile is above it when enough of them are.           *)
(***************************************************************************)
EXTENDS Integers

CONSTANT
    Windows     \* the phases to look at: first sequence number and length

ASSUME LatencyAssumption == Windows \subseteq (Nat \X (Nat \ {0}))

VARIABLES
    window,         \* one of Windows
    phase,
    i,              \* requests of this phase so far
    over,           \* and how many of them took longer than the threshold
    errors,
    secondsToBreach,    \* of the failure phase, or NoBreach
    invariants          \* the judgement of the phases that are over

latencyVars == <<window, phase, i, over, errors, secondsToBreach, invariants>>

DEFAULT_SLO_P95_THRESHOLD_MS == 500
DEFAULT_ERROR_RATE_CEILING_PCT == 2
DEFAULT_BASELINE_CONFIG ==
    [delayMode |-> "fixed", from |-> 45, to |-> 45, seconds |-> 1, jitterSpreadMs |-> 15, errorRateBp |-> 20]
DEFAULT_SCENARIO_CONFIG ==
    [delayMode |-> "ramp", from |-> 45, to |-> 950, seconds |-> 75, jitterSpreadMs |-> 25, errorRateBp |-> 40]

PhaseOrder == [baseline |-> "failure", failure |-> "recovery", recovery |-> "over"]
LatencyPhases == DOMAIN PhaseOrder \cup {"over"}
NoBreach == -1
Unjudged == [sloBreached |-> FALSE, errorWithinCeiling |-> TRUE]

Config(p) == IF p = "failure" THEN DEFAULT_SCENARIO_CONFIG ELSE DEFAULT_BASELINE_CONFIG

\* a / b to the nearest integer, as Math.round does
Rounded(a, b) == (2 * a + b) \div (2 * b)

Least(a, b) == IF a < b THEN a ELSE b

\* Mutant of computeDelayMs: a duration in seconds taken for milliseconds.
computeDelayMsUnits(config, elapsedMs) ==
    IF config.delayMode = "fixed" THEN config.from
    ELSE config.from + Rounded((config.to - config.from) * Least(elapsedMs, config.seconds), config.seconds * 1000)

\* A ramp from one delay to another, which then holds.
computeDelayMs(config, elapsedMs) ==
    LET durationMs == config.seconds * 1000
    IN  IF config.delayMode = "fixed" THEN config.from
        ELSE config.from + Rounded((config.to - config.from) * Least(elapsedMs, durationMs), durationMs)

\* Mutant of isSyntheticError: the test that the comment of line 93 warns of.
isSyntheticErrorClustered(sequence, bp) == sequence % 10000 < bp

isSyntheticError(sequence, bp) == (sequence * 9973) % 10000 < bp

\* computeQuantile(samples, 95) is above the threshold: of n sorted samples it
\* is the one of rank ceil(95 n / 100), so all from there on are.
p95Exceeds(n, above) == n > 0 /\ above > n - (95 * n + 99) \div 100

LatencyInit ==
    /\ window \in Windows
    /\ phase = "baseline"
    /\ i = 0 /\ over = 0 /\ errors = 0
    /\ secondsToBreach = NoBreach
    /\ invariants = [p \in DOMAIN PhaseOrder |-> Unjudged]

\* The sequence numbers go on from phase to phase.
startSequence ==
    window[1] + window[2] * (CASE phase = "baseline" -> 0 [] phase = "failure" -> 1 [] OTHER -> 2)

\* simulatePhase: request i of the phase.
SendRequest ==
    /\ phase # "over" /\ i < window[2]
    /\ \E jitter \in {0, Config(phase).jitterSpreadMs - 1} :
          over' = over + IF computeDelayMs(Config(phase), i * 1000) + jitter > DEFAULT_SLO_P95_THRESHOLD_MS
                         THEN 1 ELSE 0
    /\ errors' = errors + IF isSyntheticError(startSequence + i, Config(phase).errorRateBp) THEN 1 ELSE 0
    /\ secondsToBreach' =
          IF phase = "failure" /\ secondsToBreach = NoBreach /\ p95Exceeds(i + 1, over')
          THEN i ELSE secondsToBreach
    /\ i' = i + 1
    /\ UNCHANGED <<window, phase, invariants>>

\* evaluateInvariants; the replicas are ready throughout.
evaluateInvariants ==
    [sloBreached |-> p95Exceeds(i, over),
     errorWithinCeiling |-> errors * 100 <= DEFAULT_ERROR_RATE_CEILING_PCT * i]

EndPhase ==
    /\ phase # "over" /\ i = window[2]
    /\ invariants' = [invariants EXCEPT ![phase] = evaluateInvariants]
    /\ phase' = PhaseOrder[phase]
    /\ i' = 0 /\ over' = 0 /\ errors' = 0
    /\ UNCHANGED <<window, secondsToBreach>>

LatencyNext == SendRequest \/ EndPhase

LatencySpec == LatencyInit /\ [][LatencyNext]_latencyVars

-----------------------------------------------------------------------------
LatencyTypeOK ==
    /\ window \in Nat \X (Nat \ {0})
    /\ phase \in LatencyPhases
    /\ i \in 0..window[2] /\ over \in 0..i /\ errors \in 0..i
    /\ secondsToBreach \in {NoBreach} \cup 0..window[2]
    /\ invariants \in [DOMAIN PhaseOrder -> [sloBreached : BOOLEAN, errorWithinCeiling : BOOLEAN]]

\* The scenario slows the hop down as promised: whatever the jitter, the failure
\* phase exceeds the threshold, and is in breach when it ends, and the phases
\* before and after it are not.  The limit of three minutes (test/
\* order-dependency-latency.test.js:210) adds nothing for phases of at most 180
\* requests, one per second.
BreachInTime ==
    phase = "over" =>
        /\ secondsToBreach \in 0..180
        /\ invariants["failure"].sloBreached
        /\ ~invariants["baseline"].sloBreached /\ ~invariants["recovery"].sloBreached

\* And it is led by latency: the errors of each phase stay below the ceiling, so
\* that none is mistaken for one of failing requests.  This is so of phases of a
\* hundred requests or more wherever in the sequence they begin, and of the
\* shipped length of sixty (line 260) in phases that follow each other from
\* request 0.  It is not so of sixty elsewhere, though the comment at line 97
\* speaks of any window: requests 369 and 370 both fail, 2 of 60 against 2 %.
ErrorsAreSpread ==
    \A p \in DOMAIN PhaseOrder : invariants[p].errorWithinCeiling
=============================================================================
