----------------------------- MODULE MCCallQueue -----------------------------
\* Four calling threads: every order of pushes and pops, frames reused.
EXTENDS CallQueue

CONSTANTS r1, r2, r3, r4
==============================================================================
