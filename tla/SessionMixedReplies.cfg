CONSTANTS
    c1 = c1
    c2 = c2
    c3 = c3
    w1 = w1
    Main = Main
    Worker = Worker
    None = None
    Callers = {c1, c2, c3}
    Watchers = {}
    FaultSets = {{"writeFail"}}
    MaxCalls = 1
SPECIFICATION Spec
INVARIANTS WaiterGetsOwnReply
CHECK_DEADLOCK FALSE
