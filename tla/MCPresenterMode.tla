-------------------------- MODULE MCPresenterMode --------------------------
\* Presenter mode on the shipped track "fast-wow" (presenter-mode.js:12-70).
EXTENDS PresenterMode, TLC

MCTrack == <<"readiness", "baseline", "approval", "remediation", "recovery">>

\* Runs and requests are told apart by nothing but their identity.
MCSymmetry == Permutations(Runs) \cup Permutations(Requests)
=============================================================================
