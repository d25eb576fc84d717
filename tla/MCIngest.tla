------------------------------ MODULE MCIngest ------------------------------
EXTENDS TrackIngest

\* No worker runs here: the attempts are never used up.
MCAttempts == [d \in Destinations |-> 1]
=============================================================================
