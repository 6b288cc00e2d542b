SPECIFICATION FairSpec
CONSTANTS
    None = None
    Messages <- MCMessages
    Size <- MCSize
    Noise <- MCNoise
    Immediate <- MCImmediate
    Item <- MCItem
    Cap <- MCCap
    QueueSize = 1
    Links = {"serial", "ble"}
    MayStall = FALSE
    MaxSent = 3
INVARIANTS
    AssertionsHold
    Delivered
PROPERTIES
    AllHandled
    TimeoutMeansSilence
