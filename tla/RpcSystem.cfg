CONSTANTS
    u1 = u1
    u2 = u2
    u3 = u3
    e1 = e1
    Users = {u1, u2, u3}
    Reader = Reader
    Events = {e1}
    Nobody = Nobody
    ToServer = 1
    ToClient = 2
    TroubleSets <- EachTrouble
    Does <- EachDoes
SPECIFICATION LiveSpec
INVARIANTS TypeOK ReplyMeetsItsCall EventFindsCallback
PROPERTIES ImplementsRpc EverythingReturns
CHECK_DEADLOCK FALSE
