SPECIFICATION Spec
CONSTANTS
    a = a
    b = b
    None = None
    Ids <- OneId
    Ticketing <- OneId
    TemplateKinds <- NoTemplates
    Failures <- KillFailure
    MaxSession = 2
PROPERTIES
    TemporaryEndsAtLogout
