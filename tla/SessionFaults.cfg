CONSTANTS
    c1 = c1
    c2 = c2
    c3 = c3
    w1 = w1
    Main = Main
    Worker = Worker
    None = None
    Callers = {c1, c2}
    Watchers = {w1}
    FaultSets <- AllFaults
    MaxCalls = 2
SPECIFICATION LiveSpec
INVARIANTS TypeOK RepliesMatch EachCallHasOneRecord ErrorOutlivesItsReaders HandlerSleepsAlone CloseLetsCallsFinish
PROPERTIES CallsReturn CloseReturns FailureWakesAll
CHECK_DEADLOCK FALSE
