CONSTANTS
    c1 = c1
    c2 = c2
    n1 = n1
    n2 = n2
    Callers = {c1, c2}
    Notifiers = {n1, n2}
    NoCall = NoCall
    MaxCalls = 2
SPECIFICATION LiveSpec
INVARIANTS TypeOK FrameOutlivesNotify
PROPERTIES ImplementsLatch ImplementsLiveLatch
CHECK_DEADLOCK FALSE
