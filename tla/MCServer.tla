-------------------------------- MODULE MCServer --------------------------------
\* Two event streams, two sessions over one connection.
EXTENDS Server

CONSTANTS e1, e2

\* A service that locks, with everything but the two faults that undo what the
\* other sessions show, and with each of those; and a service without a mutex.
AllFaults ==
    {FaultKinds \ {"unlocked", "writeGoodbye", "reportTwice"},
     FaultKinds \ {"unlocked", "writeGoodbye"},
     FaultKinds \ {"unlocked", "reportTwice"},
     FaultKinds \ {"writeGoodbye", "reportTwice"}}
==============================================================================
