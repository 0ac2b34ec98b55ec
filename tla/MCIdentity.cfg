SPECIFICATION MCSpec
CONSTANTS
    p1 = p1
    p2 = p2
    c1 = c1
    None = None
    Principals <- TwoPrincipals
    Calls <- OneCall
    MaxChanges = 2
INVARIANTS
    ServiceFollowsCaches
    SignedInHasAccount
    OneAccountPerPrincipal
    AccountsChecked
PROPERTIES
    EveryCallAnswered
CHECK_DEADLOCK FALSE
