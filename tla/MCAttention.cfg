SPECIFICATION MCSpec
CONSTANTS
    a1 = a1
    a2 = a2
    A = A
    k1 = k1
    None = None
    Objects <- ReaddedObjects
    Ids <- OneId
    IdOf <- ReaddedIdOf
    Calls <- OneCall
    NotificationIds <- FourNotificationIds
    MaxInFlight = 2
INVARIANTS
    ArrayMatchesProperty
    BeliefSettles
    ResolvedIsWithdrawn
    ExitWithdraws
PROPERTIES
    NotificationBehaviour
CHECK_DEADLOCK FALSE
VIEW MCView
