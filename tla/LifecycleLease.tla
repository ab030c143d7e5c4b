-------------------------- MODULE LifecycleLease --------------------------
(***************************************************************************)
(* What the scenario lifecycle lock promises its users: a lease on the     *)
(* cluster.  One run holds it at a time; only the holder gives it back; a  *)
(* held lease changes hands only after it went stale, or because the new   *)
(* holder was told to stack (-AllowStacking, and every baseline reset) or  *)
(* could not see that it is held.                                          *)
(* Whoever loses it that way may work on to its own end, but never gives   *)
(* back the lease of a successor that is still at work.                    *)
(* The module says nothing of ConfigMaps, versions or kubectl.             *)
(***************************************************************************)

CONSTANTS Run,      \* the runs that may hold the lease
          NoRun     \* not a run: the lease is free

VARIABLES holder,   \* the run that holds the lease, or NoRun
          stale,    \* TRUE once the lease outlived its TTL
          forceful, \* the runs that would take a lease that is held
          working   \* the runs that took the lease and are not done with it

vars == <<holder, stale, forceful, working>>

Init ==
    /\ holder = NoRun
    /\ stale = FALSE
    /\ forceful \in SUBSET Run
    /\ working = {}

\* A run cannot see who holds the lease.
Blind(r) ==
    /\ forceful' = forceful \cup {r}
    /\ UNCHANGED <<holder, stale, working>>

\* A run takes the lease; it may be told that it did not, and does not work.
Acquire(r) ==
    /\ holder = NoRun \/ stale \/ r \in forceful
    /\ r \notin working
    /\ holder' = r
    /\ stale' = FALSE
    /\ working' = working \cup {r} \/ UNCHANGED working
    /\ UNCHANGED forceful

Stop(r) ==
    /\ r \in working
    /\ working' = working \ {r}
    /\ UNCHANGED <<holder, stale, forceful>>

Release(r) ==
    /\ holder = r
    /\ r \notin working
    /\ holder' = NoRun
    /\ stale' = FALSE
    /\ UNCHANGED <<forceful, working>>

Expire ==
    /\ holder # NoRun
    /\ stale' = TRUE
    /\ UNCHANGED <<holder, forceful, working>>

Next == Expire \/ \E r \in Run : Blind(r) \/ Acquire(r) \/ Stop(r) \/ Release(r)

Spec == Init /\ [][Next]_vars
===========================================================================
