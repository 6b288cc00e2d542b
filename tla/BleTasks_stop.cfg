SPECIFICATION FairBleSpec
CONSTANTS
    InSize = 2
    BleOutSize = 3
    MaxChunks = 3
    MaxTries = 2
INVARIANTS
    OffMeansOff
PROPERTIES
    MainGoesOn
    WriterParked
