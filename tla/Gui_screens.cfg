SPECIFICATION FairSpec
CONSTANTS
    Home = Home
    Screens = {s1, s2}
    Popups = {"ble"}
    Clients = {"qr"}
    QueueSize = 1
    None = None
INVARIANTS
    FreedInUse
    Heard
    MainScreenBack
PROPERTIES
    JobsGoThrough
