SPECIFICATION FairLoop
CONSTANTS
    Depth = 3
    Latency = 2
    SettleFrames = 5
    MaxEdits = 1
PROPERTY EventuallyIdle
