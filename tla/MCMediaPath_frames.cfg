SPECIFICATION FairSpec
CONSTANTS
    Files <- MCFiles
    NumFrames = 4
    FrameMax = 12
    MaxPkt = 2
    SeqSize = 5
    ClockSize = 3
    Junk = 200
INVARIANTS OnePlace InFileOrder PacketsBringNal FileKeepsServerUp
PROPERTIES NumbersGoOn EveryNalIsSent
CHECK_DEADLOCK FALSE
