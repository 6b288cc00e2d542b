SPECIFICATION Spec
CONSTANTS
    old = old
    a = a
    Fitting = {old, a}
    Alien = {x}
    Tiny = {}
    Inside <- MCInside
    Files = {a, x}
    Parts = 2
    Offers <- MCOffers
    Hosts = {"ble"}
    StickMayGo = TRUE
    QueueSize = 1
    OutSize = 1
    None = None
INVARIANTS
    FitsBoard
    CompleteMeansInstalled
    OnlyUnreadReplyStrands
PROPERTIES
    Installed
    StickUploadEnds
