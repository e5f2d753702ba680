SPECIFICATION Spec
CONSTANTS
    kMagicHigh = 77
    kMagicLow = 85
    kMaxFrameSize = 8
    Contents <- MCContents
    Clients = {c1}
    DeviceCount = 2
    Scenarios = {"Normal", "BadCrc", "ActiveDisconnect"}
    Damages <- MCDamages
    MaxSequence = 2
    MaxUnits = 3
INVARIANTS FramesInOrder NoFrameLost NothingWaits
