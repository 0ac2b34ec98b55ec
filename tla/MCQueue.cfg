SPECIFICATION QueueSpec
CONSTANTS
    a1 = a1
    a2 = a2
    b1 = b1
    c1 = c1
    A = A
    B = B
    C = C
    k1 = k1
    k2 = k2
    None = None
    Objects <- FourObjects
    Ids <- ThreeIds
    IdOf <- FourIdOf
    Calls <- TwoCalls
INVARIANTS
    TypeOK
    HeadIsChecked
    OneTaskPerId
    CallsQueuedOnce
    NeverIdleWithWork
PROPERTIES
    ImplementsService
    ClientsFirst
    NoOvertaking
SYMMETRY CallSymmetry
