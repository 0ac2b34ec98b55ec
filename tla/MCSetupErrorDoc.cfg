SPECIFICATION Spec
CONSTANTS
    None = None
    Logins = {l1}
    Existing = {e1}
    Emails = {e1}
    Urls = {plain, prefixed}
    Passwords = {p1}
    Found = found
    Typed = typed
    Malformed = malformed
    Users = {l1}
    MaxEdits = 1
    MaxTries = 1
INVARIANT
    FirstErrorOnly
CHECK_DEADLOCK FALSE
