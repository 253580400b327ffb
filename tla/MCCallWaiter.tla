---------------------------- MODULE MCCallWaiter ----------------------------
\* Two callers, two completing threads, and every frame used for two calls.
EXTENDS CallWaiter

CONSTANTS c1, c2, n1, n2
==============================================================================
