------------------------------ MODULE MCClient ------------------------------
EXTENDS BrowserTracking
=============================================================================
