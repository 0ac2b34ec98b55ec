SPECIFICATION FairHistorySpec
CONSTANTS
    a1 = a1
    b1 = b1
    A = A
    B = B
    k1 = k1
    k2 = k2
    None = None
    Objects <- TwoObjects
    Ids <- TwoIds
    IdOf <- TwoIdOf
    Calls <- TwoCalls
PROPERTIES
    FreshUnlessLate
    EveryCallAnswered
