SPECIFICATION MCSpec
CONSTANTS
    n1 = n1
    n2 = n2
    None = None
    NoCache = NoCache
    Broken = Broken
    Names <- TwoNames
    Tickets <- ThreeTickets
    MaxTime = 4
    MaxChanges = 2
INVARIANTS
    ExpiryNoticed
    RenewalAnnounced
CHECK_DEADLOCK FALSE
