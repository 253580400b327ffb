CONSTANTS
    c1 = c1
    c2 = c2
    c3 = c3
    w1 = w1
    Main = Main
    Worker = Worker
    None = None
    Callers = {c1, c2}
    Watchers = {}
    FaultSets = {{"goodbye"}}
    MaxCalls = 1
SPECIFICATION LiveSpec
PROPERTIES CallAfterGoodbyeReturns
CHECK_DEADLOCK FALSE
