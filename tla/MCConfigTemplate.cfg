SPECIFICATION FairSpec
CONSTANTS
    a = a
    b = b
    None = None
    Ids <- OneId
    Ticketing <- OneId
    TemplateKinds <- BothTemplates
    Failures <- NoFailure
    MaxSession = 3
INVARIANTS
    TemplateEnforced
PROPERTIES
    TemporaryEndsAtLogout
    TemporarySecretsCleared
    ReloadsEnd
