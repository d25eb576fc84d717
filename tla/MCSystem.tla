------------------------------ MODULE MCSystem ------------------------------
EXTENDS TrackingSystem, TLC

\* A job that fails once has failed for good: the rest is left to replays.
MCAttempts == [d \in Destinations |-> 1]

MCUserOf == [e \in Events |-> CHOOSE u \in Users : TRUE]

\* No guard and no property of this run reads the counters: states that
\* differ only in them are one.
Uncounted == <<dbVars, job, req, adds, workerVars, replayVars>>

Symmetry == Permutations(Operators) \cup Permutations(Requests)
=============================================================================
