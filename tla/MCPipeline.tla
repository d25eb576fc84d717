----------------------------- MODULE MCPipeline -----------------------------
EXTENDS DeliveryPipeline

\* Three attempts everywhere, as for 'meta': the first that leaves room for
\* a failure the listener records as 'retrying', for one it already calls
\* final, and for the last.
MCAttempts == [d \in Destinations |-> 3]
=============================================================================
