SPECIFICATION FairSpec
CONSTANTS
    None = None
    w1 = w1
    t1 = t1
    p1 = p1
    p2 = p2
    k1 = k1
    k2 = k2
    k3 = k3
    Wallets = {w1}
    TempWallets = {t1}
    Pins = {p1, p2}
    ServerKeys = {k1, k2, k3}
    Networks = {"main"}
    Sources = {"serial", "internal"}
    NvsMayFail = FALSE
    MayCrash = FALSE
PROPERTIES
    PinChangeCompletes
    EraseCompletes
