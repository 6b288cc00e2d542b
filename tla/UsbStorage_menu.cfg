SPECIFICATION Spec
CONSTANTS
    QueueSize = 2
    OutSize = 1
INVARIANTS
    KnownStalls
    KnownAborts
    PortShared
