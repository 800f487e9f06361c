SPECIFICATION RemuxSpec
CONSTANTS
    HeaderSize <- MCHeaderSize
    MaxPacketSize <- MCMaxPacketSize
    AudioSizes <- MCAudioSizes
    Ac3Sizes <- MCAc3Sizes
    Frames <- MCFrames
    Noise <- MCNoise
    MaxSent <- MCMaxSent
    MaxPes <- MCMaxPes
    MaxNoise = 2
    MaxCut = 3
    MaxClears = 1
INVARIANTS
    PayloadKept
    OneFrame
CHECK_DEADLOCK FALSE
