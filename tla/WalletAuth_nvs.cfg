SPECIFICATION Spec
CONSTANTS
    None = None
    w1 = w1
    t1 = t1
    p1 = p1
    p2 = p2
    k1 = k1
    k2 = k2
    k3 = k3
    k4 = k4
    Wallets = {w1}
    TempWallets = {t1}
    Pins = {p1, p2}
    ServerKeys = {k1, k2, k3, k4}
    Networks = {"main"}
    Sources = {"serial", "internal"}
    NvsMayFail = TRUE
    MayCrash = TRUE
SYMMETRY KeySymmetry
INVARIANTS
    GuessBudget
    TemporaryNeverStored
    CondemnedStaysShut
