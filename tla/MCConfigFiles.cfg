SPECIFICATION Spec
CONSTANTS
    a = a
    b = b
    None = None
    Ids <- TwoIds
    Ticketing <- TwoIds
    TemplateKinds <- NoTemplates
    Failures <- AnyFailure
    MaxSession = 2
INVARIANTS
    ConfigTypeOK
    BusFollowsFiles
PROPERTIES
    RemovedIsGone
    PermanentSurvivesLogin
    UnreadableFileKept
SYMMETRY IdSymmetry
