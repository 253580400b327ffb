CONSTANTS
    e1 = e1
    e2 = e2
    Acceptor = Acceptor
    Firmware = Firmware
    Nobody = Nobody
    Events = {e1, e2}
    FaultSets <- AllFaults
    MaxSessions = 2
    MaxRequests = 3
    MaxEmits = 2
    MaxGoodbyes = 1
SPECIFICATION LiveSpec
INVARIANTS TypeOK OneAnswerEach EventsAreKnown SessionEndsClean NoNullConn
PROPERTIES ServerGetsBack
CHECK_DEADLOCK FALSE
