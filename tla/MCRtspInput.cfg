SPECIFICATION Spec
CONSTANTS
    Streams <- MCStreams
    Byte <- MCByte
    InitialSize = 6
    SpareSize = 20
    Junk = Junk
INVARIANTS TypeOK UnreadIsRecent AnswersMatch ApartLosesNothing FramesStayAligned
CHECK_DEADLOCK FALSE
