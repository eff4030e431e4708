SPECIFICATION FairSpec
CONSTANTS
    ByteBase = 3
    Tags = {1, 2}
    MaxFrameSize = 2
    Frames <- MCFrames
    MaxSent = 3
PROPERTIES ImplementsChannel EverythingArrives
CHECK_DEADLOCK FALSE
