SPECIFICATION Spec
CONSTANTS
    Clients = {c1}
    QueueSize = 1
    OutSize = 2
    None = None
INVARIANTS
    ScreenFits
    InterfacesFit
    UnlockToCome
    StoredWalletKnown
PROPERTIES
    LockedOnLoss
