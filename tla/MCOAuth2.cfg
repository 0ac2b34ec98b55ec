SPECIFICATION AnsweringSpec
CONSTANTS
    o1 = o1
    o2 = o2
    k1 = k1
    Check = Check
    None = None
    Objects <- TwoObjects
    Clients <- OneClient
    MaxToken = 2
INVARIANTS
    OneRequestPerObject
    RefusalIsReal
    TokenKept
    NothingAfterRemove
PROPERTIES
    EveryCallReturns
CHECK_DEADLOCK FALSE
