---------------------------- MODULE MCLiveStore ----------------------------
\* The live store with the poller, the render loop and the watchdog.
EXTENDS LiveStore

CONSTANTS render, watchdog, poller, t1, k1

=============================================================================
