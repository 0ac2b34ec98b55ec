SPECIFICATION Spec
CONSTANTS
    None = None
    Logins = {l1, l2}
    Existing = {l1, e1}
    Emails = {e1, e2}
    Urls = {plain, prefixed}
    Passwords = {p1, p2}
    Found = found
    Typed = typed
    Malformed = malformed
    Users = {l1, l2}
    MaxEdits = 4
    MaxTries = 2
INVARIANTS
    SavedWasAccepted
    OutcomeIsTrue
    NothingLeftBehind
PROPERTY
    EverySignInEnds
CHECK_DEADLOCK FALSE
