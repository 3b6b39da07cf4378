SPECIFICATION Spec
CONSTANTS
    Files <- MCFiles
    NumFrames = 4
    FrameMax = 12
    MaxPkt = 2
    SeqSize = 5
    ClockSize = 3
    Junk = 200
INVARIANT Reassembled
CHECK_DEADLOCK FALSE
